---------------------------- MODULE Spec2Model ----------------------------
(***************************************************************************)
(* A model of bazaar_update (src/src/main.rs): the FixedPoint arithmetic,  *)
(* the snapshot store under raw/ (get_and_dump, newest_file) and the CSV   *)
(* export (generate_csv), run by main.                                     *)
(*                                                                         *)
(* Conventions of the model                                                *)
(*  - A file name is the sequence of its bytes (ASCII codes), compared as  *)
(*    OsStr compares: byte by byte, a proper prefix being smaller.         *)
(*  - A JSON number (and an f64) is held exactly, in thousandths: the JSON *)
(*    number 1.23 is 1230, the JSON number 123 is 123000.                  *)
(*  - A file is the sequence of the chunks written to it; fs::write is     *)
(*    File::create (truncate) followed by FileChunks write calls.          *)
(*  - i64 is modelled as a two's-complement word of WordBits bits.         *)
(***************************************************************************)
EXTENDS Integers, Sequences, FiniteSets, TLC

VARIABLES
    \* ---- the FixedPoint arithmetic ----
    fpA,        \* left operand (raw units)
    fpB,        \* right operand (raw units)
    fpBuild,    \* "debug" (overflow checks on) or "release" (wrapping)
    fpOp,       \* the operator applied last: "none", "mul", "div", "add", "sub"
    fpOut,      \* its outcome
    \* ---- the environment ----
    now,        \* the clock: seconds since the Unix epoch
    dirExists,  \* whether raw/ exists
    dir,        \* raw/: file name -> content (sequence of chunks)
    csv,        \* bazaar_summary.csv: sequence of records (rows)
    runs,       \* invocations started so far
    \* ---- each invocation ----
    pc,         \* position in main
    mode,       \* "main" or "export" (generate_csv called on its own)
    response,   \* get_and_dump: the parsed BazaarResponse
    filename,   \* get_and_dump: the file name computed from the clock
    off,        \* get_and_dump: chunks of the file written so far
    listing,    \* newest_file: the entries as read_dir yielded them
    newest,     \* generate_csv: newest_path (NoPath: none)
    data,       \* generate_csv: what read_to_string returned
    loaded,     \* generate_csv: the BazaarResponse parsed from data
    err,        \* the error the invocation ended with ("" : none)
    \* ---- history ----
    writes,     \* the (instant, file name) pairs get_and_dump computed
    preexisting \* the entries raw/ held before the first invocation

fpVars  == <<fpA, fpB, fpBuild, fpOp, fpOut>>
envVars == <<now, dirExists, dir, csv, runs>>
procVars == <<pc, mode, response, filename, off, listing, newest, data, loaded, err>>
histVars == <<writes, preexisting>>
vars == <<fpVars, envVars, procVars, histVars>>

---------------------------------------------------------------------------
(* Bounds of the model *)

\* Width of the modelled i64 (64 in the program).
WordBits == 15
\* Operands -MaxOperand..MaxOperand are tried, besides the named ones.
MaxOperand == 3
\* write(2) calls fs::write needs for one snapshot.
FileChunks == 2
\* Clock readings: ClockStart + k * ClockStep, k in 0..ClockSteps.
ClockSteps == 3
\* Invocations in one behaviour.
MaxRuns == 2

---------------------------------------------------------------------------
(* Integer helpers *)

Abs(x) == IF x < 0 THEN -x ELSE x

RECURSIVE Pow2(_)
Pow2(n) == IF n = 0 THEN 1 ELSE 2 * Pow2(n - 1)

I64Max == Pow2(WordBits - 1) - 1
I64Min == -Pow2(WordBits - 1)
FitsI64(x) == I64Min <= x /\ x <= I64Max

\* Two's-complement wrap-around of a release build.
Wrap(x) == ((x - I64Min) % Pow2(WordBits)) + I64Min

\* A faulty variant: the quotient floored.
FloorDiv(a, b) == IF b > 0 THEN a \div b ELSE (-a) \div (-b)
\* Rust's integer `/`: the quotient truncated toward zero (b # 0).
TruncDiv(a, b) ==
    IF (a >= 0) = (b > 0) THEN Abs(a) \div Abs(b) ELSE -(Abs(a) \div Abs(b))

\* f64::round of the exact quotient n / d (d > 0): half away from zero.
RoundDiv(n, d) ==
    IF n >= 0 THEN (2 * n + d) \div (2 * d) ELSE -((2 * (-n) + d) \div (2 * d))

---------------------------------------------------------------------------
(* FixedPoint (main.rs 13-66) *)

SCALE == 100

Value(r)  == [kind |-> "Value", raw |-> r]
Panic(k)  == [kind |-> k, raw |-> 0]

\* from_float on a number given in thousandths: (value * 100).round()
FromFloat(milli) == RoundDiv(milli * SCALE, 1000)

\* An i64 product: overflow panics in a debug build and wraps in a release one.
Overflows(p, build) == ~FitsI64(p) /\ build = "debug"

Add(a, b, build) ==
    IF Overflows(a + b, build) THEN Panic("Overflow") ELSE Value(Wrap(a + b))

Sub(a, b, build) ==
    IF Overflows(a - b, build) THEN Panic("Overflow") ELSE Value(Wrap(a - b))

\* A faulty variant: the rescaling floors.
MulFloor(a, b, build) ==
    IF Overflows(a * b, build) THEN Panic("Overflow")
    ELSE Value(FloorDiv(Wrap(a * b), SCALE))
\* mul: (self.0 * other.0) / SCALE
Mul(a, b, build) ==
    IF Overflows(a * b, build) THEN Panic("Overflow")
    ELSE Value(TruncDiv(Wrap(a * b), SCALE))

\* A faulty variant: a zero divisor yields 0.
DivGuarded(a, b, build) ==
    IF Overflows(a * SCALE, build) THEN Panic("Overflow")
    ELSE IF b = 0 THEN Value(0)
    ELSE IF Wrap(a * SCALE) = I64Min /\ b = -1 THEN Panic("Overflow")
    ELSE Value(TruncDiv(Wrap(a * SCALE), b))
\* div: (self.0 * SCALE) / other.0; `/` panics on a zero divisor, and on
\* i64::MIN / -1.
Div(a, b, build) ==
    IF Overflows(a * SCALE, build) THEN Panic("Overflow")
    ELSE IF b = 0 THEN Panic("DivisionByZero")
    ELSE IF Wrap(a * SCALE) = I64Min /\ b = -1 THEN Panic("Overflow")
    ELSE Value(TruncDiv(Wrap(a * SCALE), b))

FPOperands ==
    (-MaxOperand .. MaxOperand)
        \cup {SCALE, -SCALE, SCALE + 50, -(SCALE + 50), 7 * SCALE + 77,
              I64Max, I64Min, (I64Max \div SCALE) + 1, -((I64Max \div SCALE) + 1)}

NoOutcome == [kind |-> "none", raw |-> 0]

FPInit ==
    /\ fpA \in FPOperands
    /\ fpB \in FPOperands
    /\ fpBuild \in {"debug", "release"}
    /\ fpOp = "none"
    /\ fpOut = NoOutcome

ApplyAdd ==
    /\ fpOp = "none"
    /\ fpOp' = "add"
    /\ fpOut' = Add(fpA, fpB, fpBuild)
    /\ UNCHANGED <<fpA, fpB, fpBuild, envVars, procVars, histVars>>

ApplySub ==
    /\ fpOp = "none"
    /\ fpOp' = "sub"
    /\ fpOut' = Sub(fpA, fpB, fpBuild)
    /\ UNCHANGED <<fpA, fpB, fpBuild, envVars, procVars, histVars>>

ApplyMul ==
    /\ fpOp = "none"
    /\ fpOp' = "mul"
    /\ fpOut' = Mul(fpA, fpB, fpBuild)
    /\ UNCHANGED <<fpA, fpB, fpBuild, envVars, procVars, histVars>>

ApplyDiv ==
    /\ fpOp = "none"
    /\ fpOp' = "div"
    /\ fpOut' = Div(fpA, fpB, fpBuild)
    /\ UNCHANGED <<fpA, fpB, fpBuild, envVars, procVars, histVars>>

---------------------------------------------------------------------------
(* Strings *)

\* The ASCII code of a decimal digit.
DigitCode(d) == 48 + d

RECURSIVE Digits(_)
\* The decimal digits of n >= 0, as codes, without padding.
Digits(n) == IF n < 10 THEN <<DigitCode(n)>> ELSE Append(Digits(n \div 10), DigitCode(n % 10))

RECURSIVE ZeroPad(_, _)
\* {:0w}: zeros on the left up to a width of w; longer strings are kept whole.
ZeroPad(s, w) == IF Len(s) >= w THEN s ELSE ZeroPad(<<DigitCode(0)>> \o s, w)

RECURSIVE LexLess(_, _)
\* OsStr's `<`: the first differing byte decides; a proper prefix is smaller.
LexLess(s, t) ==
    IF t = <<>> THEN FALSE
    ELSE IF s = <<>> THEN TRUE
    ELSE IF Head(s) # Head(t) THEN Head(s) < Head(t)
    ELSE LexLess(Tail(s), Tail(t))

LexGreater(s, t) == LexLess(t, s)

DigitStr(d) ==
    CASE d = 0 -> "0" [] d = 1 -> "1" [] d = 2 -> "2" [] d = 3 -> "3" [] d = 4 -> "4"
      [] d = 5 -> "5" [] d = 6 -> "6" [] d = 7 -> "7" [] d = 8 -> "8" [] d = 9 -> "9"

RECURSIVE U64ToString(_)
\* u64 / u32 to_string: the decimal digits.
U64ToString(n) == IF n < 10 THEN DigitStr(n) ELSE U64ToString(n \div 10) \o DigitStr(n % 10)

RECURSIVE FixedDigits(_, _)
\* n on exactly w digits.
FixedDigits(n, w) ==
    IF w = 0 THEN "" ELSE FixedDigits(n \div 10, w - 1) \o DigitStr(n % 10)

RECURSIVE FracStr(_, _)
\* The w-digit fraction f without its trailing zeros (f > 0).
FracStr(f, w) ==
    IF f % 10 = 0 THEN FracStr(f \div 10, w - 1) ELSE FixedDigits(f, w)

\* f64 to_string of a non-negative number given in thousandths: the shortest
\* decimal that reads back as the same number ("3", "4.2", "1.234").
F64ToString(milli) ==
    IF milli % 1000 = 0 THEN U64ToString(milli \div 1000)
    ELSE U64ToString(milli \div 1000) \o "." \o FracStr(milli % 1000, 3)

---------------------------------------------------------------------------
(* The local clock and the snapshot file name (main.rs 131-136) *)

\* The proleptic Gregorian date of day z (days since 1970-01-01): chrono's
\* NaiveDate, computed by eras of 400 years starting on 1 March.
CivilFromDays(z) ==
    LET zz  == z + 719468
        era == zz \div 146097
        doe == zz - era * 146097
        yoe == (doe - doe \div 1460 + doe \div 36524 - doe \div 146096) \div 365
        doy == doe - (365 * yoe + yoe \div 4 - yoe \div 100)
        mp  == (5 * doy + 2) \div 153
        d   == doy - (153 * mp + 2) \div 5 + 1
        m   == IF mp < 10 THEN mp + 3 ELSE mp - 9
        y   == yoe + era * 400 + (IF m <= 2 THEN 1 ELSE 0)
    IN  [year |-> y, month |-> m, day |-> d]

\* The zone of the model: UTC+2 (summer time) until DstEnd, UTC+1 from then
\* on (Europe, 27 October 2024, 01:00 UTC).
DstEnd == 20023 * 86400 + 3600
UtcOffset(t) == IF t < DstEnd THEN 2 * 3600 ELSE 3600

\* Local::now() at the instant t: the wall-clock date and time of the zone.
LocalNow(t) ==
    LET l   == t + UtcOffset(t)
        sod == l % 86400
    IN  [date   |-> CivilFromDays(l \div 86400),
         hour   |-> sod \div 3600,
         minute |-> (sod % 3600) \div 60,
         second |-> sod % 60]

\* format("%Y%m%d"): the year on four digits at least (signed beyond 0..9999),
\* month and day on two.
DateStr(date) ==
    (IF date.year > 9999 THEN <<43>> \o Digits(date.year)
     ELSE IF date.year < 0 THEN <<45>> \o ZeroPad(Digits(-date.year), 4)
     ELSE ZeroPad(Digits(date.year), 4))
        \o ZeroPad(Digits(date.month), 2) \o ZeroPad(Digits(date.day), 2)

SecondsFromMidnight(t) ==
    LocalNow(t).hour * 3600 + LocalNow(t).minute * 60 + LocalNow(t).second

DotJson == <<46, 106, 115, 111, 110>>

\* format!("raw/{}{:05}.json", date_str, seconds_from_midnight), without raw/.
SnapshotFilename(t) ==
    DateStr(LocalNow(t).date) \o ZeroPad(Digits(SecondsFromMidnight(t)), 5) \o DotJson

ClockStep  == 30 * 60
ClockStart == DstEnd - 2 * ClockStep
ClockInstants == {ClockStart + k * ClockStep : k \in 0 .. ClockSteps}

---------------------------------------------------------------------------
(* The catalog model and its JSON form (main.rs 74-117) *)

\* serde_json of an unsigned integer, and back.
JsonOfInt(n) == n * 1000
IntOfJson(j) == j \div 1000
\* serde_json of an f64 prints the shortest decimal that reads back as the
\* same f64, and reads a decimal as the nearest f64: the number is kept.
JsonOfF64(x) == x
F64OfJson(j) == j

\* #[derive(Serialize)] on the newtype struct FixedPoint(i64): the inner i64.
SerializeFixedPoint(raw) == JsonOfInt(raw)
\* deserialize_fixed_point: the JSON number read as f64, then from_float.
DeserializeFixedPoint(j) == FromFloat(F64OfJson(j))

SerializeOrder(o) ==
    [amount       |-> JsonOfInt(o.amount),
     pricePerUnit |-> SerializeFixedPoint(o.pricePerUnit),
     orders       |-> JsonOfInt(o.orders)]
DeserializeOrder(j) ==
    [amount       |-> IntOfJson(j.amount),
     pricePerUnit |-> DeserializeFixedPoint(j.pricePerUnit),
     orders       |-> IntOfJson(j.orders)]

SerializeQuickStatus(q) ==
    [productId      |-> q.productId,
     sellPrice      |-> JsonOfF64(q.sellPrice),
     sellVolume     |-> JsonOfInt(q.sellVolume),
     sellMovingWeek |-> JsonOfInt(q.sellMovingWeek),
     sellOrders     |-> JsonOfInt(q.sellOrders),
     buyPrice       |-> JsonOfF64(q.buyPrice),
     buyVolume      |-> JsonOfInt(q.buyVolume),
     buyMovingWeek  |-> JsonOfInt(q.buyMovingWeek),
     buyOrders      |-> JsonOfInt(q.buyOrders)]
DeserializeQuickStatus(j) ==
    [productId      |-> j.productId,
     sellPrice      |-> F64OfJson(j.sellPrice),
     sellVolume     |-> IntOfJson(j.sellVolume),
     sellMovingWeek |-> IntOfJson(j.sellMovingWeek),
     sellOrders     |-> IntOfJson(j.sellOrders),
     buyPrice       |-> F64OfJson(j.buyPrice),
     buyVolume      |-> IntOfJson(j.buyVolume),
     buyMovingWeek  |-> IntOfJson(j.buyMovingWeek),
     buyOrders      |-> IntOfJson(j.buyOrders)]

SerializeProduct(pr) ==
    [product_id   |-> pr.product_id,
     sell_summary |-> [i \in 1 .. Len(pr.sell_summary) |-> SerializeOrder(pr.sell_summary[i])],
     buy_summary  |-> [i \in 1 .. Len(pr.buy_summary) |-> SerializeOrder(pr.buy_summary[i])],
     quick_status |-> SerializeQuickStatus(pr.quick_status)]
DeserializeProduct(j) ==
    [product_id   |-> j.product_id,
     sell_summary |-> [i \in 1 .. Len(j.sell_summary) |-> DeserializeOrder(j.sell_summary[i])],
     buy_summary  |-> [i \in 1 .. Len(j.buy_summary) |-> DeserializeOrder(j.buy_summary[i])],
     quick_status |-> DeserializeQuickStatus(j.quick_status)]

\* serde_json::to_string_pretty(&response)
Serialize(r) ==
    [success     |-> r.success,
     lastUpdated |-> JsonOfInt(r.lastUpdated),
     products    |-> [k \in DOMAIN r.products |-> SerializeProduct(r.products[k])]]
\* serde_json::from_str / Response::json into BazaarResponse
Deserialize(j) ==
    [success     |-> j.success,
     lastUpdated |-> IntOfJson(j.lastUpdated),
     products    |-> [k \in DOMAIN j.products |-> DeserializeProduct(j.products[k])]]

NoResponse == [success |-> FALSE, lastUpdated |-> 0, products |-> [k \in {} |-> 0]]

(* The payloads the feed may answer with, as JSON documents. *)
WireOrder(amount, price, orders) ==
    [amount |-> amount * 1000, pricePerUnit |-> price, orders |-> orders * 1000]
WireStatus(id, sp, sv, smw, so, bp, bv, bmw, bo) ==
    [productId |-> id, sellPrice |-> sp, sellVolume |-> sv * 1000,
     sellMovingWeek |-> smw * 1000, sellOrders |-> so * 1000, buyPrice |-> bp,
     buyVolume |-> bv * 1000, buyMovingWeek |-> bmw * 1000, buyOrders |-> bo * 1000]
WireInkSac ==
    [product_id   |-> "INK_SAC",
     sell_summary |-> <<WireOrder(5, 1230, 2)>>,
     buy_summary  |-> <<WireOrder(7, 1234, 1), WireOrder(3, 0, 1)>>,
     quick_status |-> WireStatus("INK_SAC", 4200, 100, 900, 2, 3100, 50, 400, 1)]
WireCoal ==
    [product_id   |-> "COAL",
     sell_summary |-> <<>>,
     buy_summary  |-> <<WireOrder(64, 2000, 4)>>,
     quick_status |-> WireStatus("COAL", 3000, 12, 80, 3, 2750, 9, 70, 4)]
WireLog ==
    [product_id   |-> "LOG",
     sell_summary |-> <<WireOrder(1, 0, 1)>>,
     buy_summary  |-> <<>>,
     quick_status |-> WireStatus("LOG", 1005, 1, 2, 1, 0, 0, 0, 0)]
FeedPayloads ==
    {[success |-> TRUE, lastUpdated |-> 17 * 1000,
      products |-> [k \in {"INK_SAC"} |-> WireInkSac]],
     [success |-> TRUE, lastUpdated |-> 42 * 1000,
      products |-> [k \in {"INK_SAC", "COAL", "LOG"} |->
                        CASE k = "INK_SAC" -> WireInkSac [] k = "COAL" -> WireCoal
                          [] OTHER -> WireLog]]}
\* What an earlier run left in raw/.
OldPayload ==
    [success |-> TRUE, lastUpdated |-> 5 * 1000,
     products |-> [k \in {"LOG"} |-> WireLog]]

---------------------------------------------------------------------------
(* Files *)

\* The i-th of the FileChunks pieces of the text of a JSON document.
Chunk(doc, i) == [doc |-> doc, part |-> i]
\* A hole: bytes never written, read as zeros.
ZeroChunk == [doc |-> Serialize(NoResponse), part |-> 0]
FileOf(doc) == [i \in 1 .. FileChunks |-> Chunk(doc, i)]

\* The content is the whole text of one JSON document.
Complete(content) == Len(content) = FileChunks /\ content = FileOf(content[1].doc)

\* A write(2) of one chunk at chunk offset pos - 1 of the file.
PutChunk(content, pos, c) ==
    [i \in 1 .. (IF pos > Len(content) THEN pos ELSE Len(content)) |->
        IF i = pos THEN c ELSE IF i <= Len(content) THEN content[i] ELSE ZeroChunk]

\* A faulty variant: the other files of the directory are lost.
CreateAlone(d, f) == [g \in {f} |-> <<>>]
\* File::create(path): the file is created, or truncated when it exists.
CreateOrTruncate(d, f) ==
    [g \in DOMAIN d \cup {f} |-> IF g = f THEN <<>> ELSE d[g]]

RECURSIVE Perms(_)
\* Every order in which the elements of S may be yielded.
Perms(S) ==
    IF S = {} THEN {<<>>}
    ELSE UNION {{<<x>> \o q : q \in Perms(S \ {x})} : x \in S}

NoPath == <<>>

RECURSIVE NewestFromLast(_, _)
\* A faulty variant: the entry yielded last.
NewestFromLast(best, paths) ==
    IF paths = <<>> THEN best ELSE NewestFromLast(Head(paths), Tail(paths))
RECURSIVE NewestFrom(_, _)
\* The loop of newest_file over the entries read_dir yields.
NewestFrom(best, paths) ==
    IF paths = <<>> THEN best
    ELSE NewestFrom(IF best = NoPath \/ LexGreater(Head(paths), best)
                    THEN Head(paths) ELSE best,
                    Tail(paths))

\* A faulty variant: a single entry is not selected.
NewestFileSkipsOne(exists, paths) ==
    IF ~exists \/ Len(paths) <= 1 THEN NoPath ELSE NewestFrom(NoPath, paths)
\* newest_file: None when raw/ cannot be read or is empty.
NewestFile(exists, paths) ==
    IF ~exists THEN NoPath ELSE NewestFrom(NoPath, paths)

---------------------------------------------------------------------------
(* The CSV (main.rs 164-179) *)

MetaRow(r) == <<"last_updated", U64ToString(r.lastUpdated), "", "", "", "", "">>
HeaderRow ==
    <<"product_id", "sell_price", "sell_volume", "buy_price", "buy_volume",
      "sell_orders", "buy_orders">>
DataRow(pr) ==
    <<pr.product_id,
      F64ToString(pr.quick_status.sellPrice),
      U64ToString(pr.quick_status.sellVolume),
      F64ToString(pr.quick_status.buyPrice),
      U64ToString(pr.quick_status.buyVolume),
      U64ToString(pr.quick_status.sellOrders),
      U64ToString(pr.quick_status.buyOrders)>>

\* A faulty variant: the last product is left out.
CsvRowsDropLast(r, order) ==
    <<MetaRow(r), HeaderRow>>
        \o [i \in 1 .. (Len(order) - 1) |-> DataRow(r.products[order[i]])]
\* The records generate_csv writes, the products in the map's iteration order.
CsvRows(r, order) ==
    <<MetaRow(r), HeaderRow>> \o [i \in 1 .. Len(order) |-> DataRow(r.products[order[i]])]

---------------------------------------------------------------------------
(* The invocations *)

Procs == {1, 2}

ForeignName == <<98, 97, 107>>          \* "bak"
OldName == SnapshotFilename(ClockStart - 86400)
PreNames == {OldName, ForeignName}
\* What a file found in raw/ may hold: a complete snapshot, or nothing.
PreContents == {FileOf(OldPayload), <<>>}

FPIdle ==
    /\ fpA = 0 /\ fpB = 0 /\ fpBuild = "debug" /\ fpOp = "none" /\ fpOut = NoOutcome

ProcInit ==
    /\ pc = [p \in Procs |-> "idle"]
    /\ mode = [p \in Procs |-> "main"]
    /\ response = [p \in Procs |-> NoResponse]
    /\ filename = [p \in Procs |-> NoPath]
    /\ off = [p \in Procs |-> 0]
    /\ listing = [p \in Procs |-> <<>>]
    /\ newest = [p \in Procs |-> NoPath]
    /\ data = [p \in Procs |-> <<>>]
    /\ loaded = [p \in Procs |-> NoResponse]
    /\ err = [p \in Procs |-> ""]

Init ==
    /\ FPIdle
    /\ ProcInit
    /\ now = ClockStart
    /\ dirExists \in BOOLEAN
    /\ \E names \in SUBSET PreNames :
          /\ (~dirExists => names = {})
          /\ dir \in [names -> PreContents]
          /\ preexisting = names
    /\ csv = <<>>
    /\ runs = 0
    /\ writes = {}

\* The clock advances.
Tick ==
    /\ now + ClockStep \in ClockInstants
    /\ now' = now + ClockStep
    /\ UNCHANGED <<fpVars, dirExists, dir, csv, runs, procVars, histVars>>

\* Invocations in one behaviour: overlapping ones are started once each.
RunLimit(alone) == IF alone THEN MaxRuns ELSE Cardinality(Procs)

\* main is started; `alone`: only when no other invocation is running.
StartMain(p, alone) ==
    /\ pc[p] = "idle"
    /\ runs < RunLimit(alone)
    /\ alone => \A q \in Procs : pc[q] = "idle"
    /\ pc' = [pc EXCEPT ![p] = "fetch"]
    /\ mode' = [mode EXCEPT ![p] = "main"]
    /\ runs' = runs + 1
    /\ UNCHANGED <<fpVars, now, dirExists, dir, csv, histVars,
                   response, filename, off, listing, newest, data, loaded, err>>

\* generate_csv is run on its own.
CallGenerateCsv(p, alone) ==
    /\ pc[p] = "idle"
    /\ runs < RunLimit(alone)
    /\ alone => \A q \in Procs : pc[q] = "idle"
    /\ pc' = [pc EXCEPT ![p] = "list"]
    /\ mode' = [mode EXCEPT ![p] = "export"]
    /\ runs' = runs + 1
    /\ UNCHANGED <<fpVars, now, dirExists, dir, csv, histVars,
                   response, filename, off, listing, newest, data, loaded, err>>

\* get_and_dump: the feed answers and the answer parses (main.rs 120-125).
Fetch(p) ==
    /\ pc[p] = "fetch"
    /\ \E wire \in FeedPayloads : response' = [response EXCEPT ![p] = Deserialize(wire)]
    /\ pc' = [pc EXCEPT ![p] = "mkdir"]
    /\ UNCHANGED <<fpVars, envVars, histVars,
                   mode, filename, off, listing, newest, data, loaded, err>>

\* get_and_dump: the request fails or the answer does not parse (`?`, 121).
FetchFails(p) ==
    /\ pc[p] = "fetch"
    /\ pc' = [pc EXCEPT ![p] = "failed"]
    /\ err' = [err EXCEPT ![p] = "Fetch"]
    /\ UNCHANGED <<fpVars, envVars, histVars,
                   mode, response, filename, off, listing, newest, data, loaded>>

\* get_and_dump: fs::create_dir_all("raw") (128).
CreateDir(p) ==
    /\ pc[p] = "mkdir"
    /\ dirExists' = TRUE
    /\ pc' = [pc EXCEPT ![p] = "create"]
    /\ UNCHANGED <<fpVars, now, dir, csv, runs, histVars,
                   mode, response, filename, off, listing, newest, data, loaded, err>>

\* get_and_dump: the file name from Local::now() (131-136), the JSON text
\* (139) and the first half of fs::write (140): File::create.
CreateFile(p) ==
    /\ pc[p] = "create"
    /\ filename' = [filename EXCEPT ![p] = SnapshotFilename(now)]
    /\ dir' = CreateOrTruncate(dir, SnapshotFilename(now))
    /\ off' = [off EXCEPT ![p] = 0]
    /\ writes' = writes \cup {[t |-> now, name |-> SnapshotFilename(now)]}
    /\ pc' = [pc EXCEPT ![p] = "write"]
    /\ UNCHANGED <<fpVars, now, dirExists, csv, runs, preexisting,
                   mode, response, listing, newest, data, loaded, err>>

\* get_and_dump: the second half of fs::write: write_all, one write(2) at a
\* time at the descriptor's own offset; after the last one get_and_dump
\* returns and main goes on to generate_csv (186-187).
WriteChunk(p) ==
    /\ pc[p] = "write"
    /\ dir' = [dir EXCEPT ![filename[p]] =
                  PutChunk(dir[filename[p]], off[p] + 1,
                           Chunk(Serialize(response[p]), off[p] + 1))]
    /\ off' = [off EXCEPT ![p] = @ + 1]
    /\ pc' = [pc EXCEPT ![p] = IF off[p] + 1 = FileChunks THEN "list" ELSE "write"]
    /\ UNCHANGED <<fpVars, now, dirExists, csv, runs, histVars,
                   mode, response, filename, listing, newest, data, loaded, err>>

\* generate_csv: newest_file() over the listing read_dir yields, in any order;
\* None becomes the error "No raw files found" (160).
ListNewest(p) ==
    /\ pc[p] = "list"
    /\ \E order \in Perms(IF dirExists THEN DOMAIN dir ELSE {}) :
          /\ listing' = [listing EXCEPT ![p] = order]
          /\ newest' = [newest EXCEPT ![p] = NewestFile(dirExists, order)]
          /\ IF NewestFile(dirExists, order) = NoPath
             THEN /\ pc' = [pc EXCEPT ![p] = "failed"]
                  /\ err' = [err EXCEPT ![p] = "NotFound"]
             ELSE /\ pc' = [pc EXCEPT ![p] = "read"]
                  /\ err' = err
    /\ UNCHANGED <<fpVars, envVars, histVars,
                   mode, response, filename, off, data, loaded>>

\* generate_csv: fs::read_to_string and serde_json::from_str (161-162).
ReadSnapshot(p) ==
    /\ pc[p] = "read"
    /\ data' = [data EXCEPT ![p] = dir[newest[p]]]
    /\ IF Complete(dir[newest[p]])
       THEN /\ loaded' = [loaded EXCEPT ![p] = Deserialize(dir[newest[p]][1].doc)]
            /\ pc' = [pc EXCEPT ![p] = "csv"]
            /\ err' = err
       ELSE /\ loaded' = loaded
            /\ pc' = [pc EXCEPT ![p] = "failed"]
            /\ err' = [err EXCEPT ![p] = "Parse"]
    /\ UNCHANGED <<fpVars, envVars, histVars,
                   mode, response, filename, off, listing, newest>>

\* generate_csv: the CSV is written, the products in the HashMap's order
\* (164-179).
WriteCsv(p) ==
    /\ pc[p] = "csv"
    /\ \E order \in Perms(DOMAIN loaded[p].products) :
          csv' = CsvRows(loaded[p], order)
    /\ pc' = [pc EXCEPT ![p] = "done"]
    /\ UNCHANGED <<fpVars, now, dirExists, dir, runs, histVars,
                   mode, response, filename, off, listing, newest, data, loaded, err>>

\* main returns (188, or an error through `?`): the process ends.
Exit(p) ==
    /\ pc[p] \in {"done", "failed"}
    /\ pc' = [pc EXCEPT ![p] = "idle"]
    /\ mode' = [mode EXCEPT ![p] = "main"]
    /\ response' = [response EXCEPT ![p] = NoResponse]
    /\ filename' = [filename EXCEPT ![p] = NoPath]
    /\ off' = [off EXCEPT ![p] = 0]
    /\ listing' = [listing EXCEPT ![p] = <<>>]
    /\ newest' = [newest EXCEPT ![p] = NoPath]
    /\ data' = [data EXCEPT ![p] = <<>>]
    /\ loaded' = [loaded EXCEPT ![p] = NoResponse]
    /\ err' = [err EXCEPT ![p] = ""]
    /\ UNCHANGED <<fpVars, envVars, histVars>>

Step(p) ==
    \/ Fetch(p)
    \/ FetchFails(p)
    \/ CreateDir(p)
    \/ CreateFile(p)
    \/ WriteChunk(p)
    \/ ListNewest(p)
    \/ ReadSnapshot(p)
    \/ WriteCsv(p)
    \/ Exit(p)

\* One invocation at a time (spec section 5).
Next ==
    \/ Tick
    \/ \E p \in Procs : StartMain(p, TRUE)
    \/ \E p \in Procs : CallGenerateCsv(p, TRUE)
    \/ \E p \in Procs : Step(p)

Spec == Init /\ [][Next]_vars

\* Invocations overlapping (cron-like runs).
NextConcurrent ==
    \/ Tick
    \/ \E p \in Procs : StartMain(p, FALSE)
    \/ \E p \in Procs : CallGenerateCsv(p, FALSE)
    \/ \E p \in Procs : Step(p)

\* raw/ holds nothing the program did not write itself.
InitFresh == Init /\ preexisting = {}

\* One invocation at a time, starting from an empty or absent raw/.
SpecFresh == InitFresh /\ [][Next]_vars

InitConcurrent == Init /\ preexisting = {}

SpecConcurrent == InitConcurrent /\ [][NextConcurrent]_vars

\* The arithmetic alone, on operands drawn from FPOperands.
InitFP ==
    /\ FPInit
    /\ ProcInit
    /\ now = ClockStart /\ dirExists = FALSE /\ dir = [g \in {} |-> <<>>]
    /\ csv = <<>> /\ runs = 0 /\ writes = {} /\ preexisting = {}

NextFP == ApplyAdd \/ ApplySub \/ ApplyMul \/ ApplyDiv

SpecFP == InitFP /\ [][NextFP]_vars

---------------------------------------------------------------------------
(* Properties *)

Names(seq) == {seq[i] : i \in 1 .. Len(seq)}
WrittenNames == {w.name : w \in writes}
\* newest_file has returned in invocation p.
Listed(p) == pc[p] \in {"read", "csv", "done"} \/ err[p] \in {"NotFound", "Parse"}
\* read_to_string has returned in invocation p.
HasRead(p) == pc[p] \in {"csv", "done"} \/ err[p] = "Parse"

\* C1: whatever the order in which read_dir yields the entries of a
\* non-empty raw/, newest_file returns the entry whose file name is greater
\* than or equal to every other entry's, by plain string comparison.
C1_NewestIsGreatest ==
    \A p \in Procs :
        (Listed(p) /\ listing[p] # <<>>) =>
            /\ Names(listing[p]) = DOMAIN dir
            /\ newest[p] \in DOMAIN dir
            /\ \A f \in DOMAIN dir : f = newest[p] \/ LexLess(f, newest[p])

\* The greatest of three entries was yielded second, after a smaller one
\* and before a smaller one.
C1_Witness ==
    \E p \in Procs :
        /\ Listed(p)
        /\ Len(listing[p]) = 3
        /\ newest[p] = listing[p][2]

\* C2: the file name is the 8-digit local date and the 5-digit seconds
\* since local midnight, and of two writes at instants t1 < t2 the first
\* has the lexicographically smaller file name.
C2_Chronological ==
    /\ \A w \in writes : Len(w.name) = 8 + 5 + Len(DotJson)
    /\ \A w1, w2 \in writes : w1.t < w2.t => LexLess(w1.name, w2.name)

\* C3: an export that overlaps a write of another invocation never reads a
\* partially written snapshot file: what it reads from a file get_and_dump
\* wrote is the complete serialized snapshot.
C3_NoPartialRead ==
    \A p \in Procs :
        (HasRead(p) /\ newest[p] \in WrittenNames) => Complete(data[p])

C5_CsvShape ==
    \A p \in Procs :
        pc[p] = "done" =>
            LET r == loaded[p]
                rows == 3 .. Len(csv)
            IN  /\ Len(csv) = Cardinality(DOMAIN r.products) + 2
                /\ \A i \in 1 .. Len(csv) : Len(csv[i]) = 7
                /\ csv[1] = <<"last_updated", U64ToString(r.lastUpdated),
                              "", "", "", "", "">>
                /\ csv[2] = <<"product_id", "sell_price", "sell_volume", "buy_price",
                              "buy_volume", "sell_orders", "buy_orders">>
                /\ \A k \in DOMAIN r.products :
                      LET q == r.products[k].quick_status
                          mine == {i \in rows : csv[i][1] = r.products[k].product_id}
                      IN  /\ Cardinality(mine) = 1
                          /\ \A i \in mine :
                                csv[i] = <<r.products[k].product_id,
                                           F64ToString(q.sellPrice),
                                           U64ToString(q.sellVolume),
                                           F64ToString(q.buyPrice),
                                           U64ToString(q.buyVolume),
                                           U64ToString(q.sellOrders),
                                           U64ToString(q.buyOrders)>>
                /\ (r.lastUpdated = 17 =>
                        csv = << <<"last_updated", "17", "", "", "", "", "">>,
                                 csv[2],
                                 <<"INK_SAC", "4.2", "100", "3.1", "50", "2", "1">> >>)

\* A snapshot of three products was exported.
C5_Witness ==
    \E p \in Procs :
        pc[p] = "done" /\ Cardinality(DOMAIN loaded[p].products) = 3 /\ Len(csv) = 5

C7_MulTruncates ==
    (fpOp = "mul" /\ FitsI64(fpA * fpB)) =>
        LET prod == fpA * fpB
            q == fpOut.raw
        IN  /\ fpOut.kind = "Value"
            /\ Abs(q * 100) <= Abs(prod)
            /\ Abs(prod) - Abs(q * 100) < 100
            /\ (q # 0 => ((q > 0) = (prod > 0)))
            /\ ((fpA = 100 /\ fpB = 100) => q = 100)

\* A negative raw product that is no multiple of 100 was rescaled.
C7_Witness ==
    /\ fpOp = "mul"
    /\ FitsI64(fpA * fpB)
    /\ fpA * fpB < 0
    /\ (fpA * fpB) % 100 # 0
    /\ fpOut.kind = "Value"

\* C8 as claimed: once a write has created a snapshot file, no later write
\* or export changes its content or removes it.
C8_NeverMutated ==
    [][\A f \in DOMAIN dir :
          (/\ f \in WrittenNames
           /\ Complete(dir[f])
           /\ \A p \in Procs : ~(pc[p] = "write" /\ filename[p] = f))
              => (f \in DOMAIN dir' /\ dir'[f] = dir[f])]_vars

\* C8 as amended: no step removes a file of raw/, and the content of a file
\* changes only in a step of a get_and_dump that computed that very file
\* name (which overwrites it).
C8_OnlyOverwritten ==
    [][\A f \in DOMAIN dir :
          /\ f \in DOMAIN dir'
          /\ dir'[f] # dir[f] =>
                \E p \in Procs : pc[p] \in {"create", "write"} /\ filename'[p] = f]_vars

\* A later run has just truncated the file an earlier run wrote at an
\* earlier instant.
C8_Witness ==
    \E p \in Procs :
        /\ pc[p] = "write" /\ off[p] = 0
        /\ dir[filename[p]] = <<>>
        /\ \E w1, w2 \in writes :
              w1.name = filename[p] /\ w2.name = filename[p] /\ w1.t < w2.t

\* C9: the snapshot written by a run and read back by its export is equal
\* to the snapshot parsed from the feed (in particular every pricePerUnit
\* has the same raw value).
C9_RoundTrip ==
    \A p \in Procs :
        (pc[p] \in {"csv", "done"} /\ mode[p] = "main" /\ newest[p] = filename[p])
            => loaded[p] = response[p]

\* C10: in a run of main that completes, the export starts after the write
\* has completed, and the CSV's last_updated is that of the snapshot fetched
\* in this run, whatever raw/ held before.
C10_ExportsOwnSnapshot ==
    \A p \in Procs :
        /\ (mode[p] = "main" /\ Listed(p)) =>
                dir[filename[p]] = FileOf(Serialize(response[p]))
        /\ (mode[p] = "main" /\ pc[p] = "done") =>
                csv[1][2] = U64ToString(response[p].lastUpdated)

===========================================================================
